---- MODULE Spec2Model ----
(***************************************************************************)
(* Model of src/fetch_12month_data.py: the multi-source disaster-record    *)
(* pipeline (seismic / open-events / global-alert / synthetic adapters,    *)
(* merge, clean, balance, persist).                                        *)
(*                                                                         *)
(* The script is one sequential program; pc is the statement it is at.     *)
(* Library calls (requests, pandas, random) are modelled by what they do   *)
(* to the values the script hands them.                                    *)
(***************************************************************************)
EXTENDS Integers, Sequences, FiniteSets, TLC

VARIABLES
    pc,                 \* the stage the script is at
    fault,              \* the uncaught exception that ended the run, or "none"
    start_date,         \* line 19
    end_date,           \* line 18
    current,            \* line 56, the window start of the monthly loop
    batch,              \* line 57
    usgs,               \* what the seismic catalogue answers in this run
    requests,           \* the HTTP requests issued to the seismic feed, in order
    failed,             \* how many seismic windows took the except branch
    eonetOutcome,       \* "pending", "ok" or "failed"
    gdacsOutcome,       \* "pending", "ok", "partial" or "failed"
    rng,                \* the state of Python's global random generator
    earthquake_records, \* line 29
    records,            \* line 80
    gdacs_records,      \* line 117
    extras,             \* line 145
    all_records,        \* line 160
    cleaned,            \* the table as the Balancer received it (df at line 173)
    pool,               \* rows available to the last df.sample call
    requested,          \* rows asked of the last df.sample call
    df,                 \* line 161 onwards
    artifact,           \* the rows of data/events_12months.csv, <<>> when not written
    writes,             \* how many times to_csv has run since the artifact was last absent
    runs                \* completed runs that wrote the artifact from the same input

vars == <<pc, fault, start_date, end_date, current, batch, usgs, requests, failed,
          eonetOutcome, gdacsOutcome, rng, earthquake_records, records,
          gdacs_records, extras, all_records, cleaned, pool, requested, df,
          artifact, writes, runs>>

(***************************************************************************)
(* Program constants                                                       *)
(***************************************************************************)
MAX_QUAKES == 10000
LowerTarget == 10000
UpperCap == 12000
SyntheticCount == 1500
SyntheticDaySpan == 360
BalancerSeed == 42
WindowMonths == 1
SpanMonths == 12

(***************************************************************************)
(* Bounds of the model                                                     *)
(***************************************************************************)
\* for the monthly loop alone, end_date = today is drawn from
\* TodayBase .. TodayBase + MaxLoopDayOffset days
MaxLoopDayOffset == 40
\* the global generator starts in a state of 0 .. MaxSeed
MaxSeed == 0
\* where the Balancer is run again, the generator is in a state of
\* 1 .. MaxBalancerSeed
MaxBalancerSeed == 1
\* features per window in the catalogue that exceeds MAX_QUAKES over the year
BulkQuakes == 900
\* rows of the tables handed to the Cleaner on its own
MaxRows == 3
\* the Balancer on its own gets tables of n rows for every n within NearBand
\* of 0, of a third and a half of the lower target, of the lower target and
\* of the upper cap
NearBand == 2

(***************************************************************************)
(* Calendar: datetime.date and dateutil.relativedelta                      *)
(***************************************************************************)
IsLeap(y) == (y % 4 = 0 /\ y % 100 # 0) \/ y % 400 = 0

DaysInMonth(y, m) ==
    IF m = 2 THEN (IF IsLeap(y) THEN 29 ELSE 28)
    ELSE IF m \in {4, 6, 9, 11} THEN 30 ELSE 31

MkDate(y, m, d) == [y |-> y, m |-> m, d |-> d]

Min(a, b) == IF a <= b THEN a ELSE b

\* date + relativedelta(months=k): the month moves, the day is clamped to the
\* length of the month reached
AddMonths(date, k) ==
    LET total == date.y * 12 + (date.m - 1) + k
        y2 == total \div 12
        m2 == (total % 12) + 1
    IN MkDate(y2, m2, Min(date.d, DaysInMonth(y2, m2)))

DateLT(a, b) ==
    \/ a.y < b.y
    \/ a.y = b.y /\ a.m < b.m
    \/ a.y = b.y /\ a.m = b.m /\ a.d < b.d

\* current + relativedelta(months=1), the min(end_date, ...) left out
DateMinUnclamped(a, b) == b

DateMin(a, b) == IF DateLT(b, a) THEN b ELSE a

RECURSIVE DaysBeforeMonth(_, _)
DaysBeforeMonth(y, m) ==
    IF m = 1 THEN 0 ELSE DaysBeforeMonth(y, m - 1) + DaysInMonth(y, m - 1)

\* date.toordinal(): days since 0001-01-01, that day being 1
Ordinal(date) ==
    LET p == date.y - 1
    IN 365 * p + (p \div 4) - (p \div 100) + (p \div 400)
       + DaysBeforeMonth(date.y, date.m) + date.d

RECURSIVE YearOf(_, _)
YearOf(n, y) ==
    IF n <= Ordinal(MkDate(y, 12, 31)) THEN y ELSE YearOf(n, y + 1)

RECURSIVE MonthOf(_, _, _)
MonthOf(n, y, m) ==
    IF n <= Ordinal(MkDate(y, m, DaysInMonth(y, m))) THEN m ELSE MonthOf(n, y, m + 1)

\* date.fromordinal(n), for the years the model uses
FromOrdinal(n) ==
    LET y == YearOf(n, 1970)
        m == MonthOf(n, y, 1)
    IN MkDate(y, m, n - Ordinal(MkDate(y, m, 1)) + 1)

TodayBase == MkDate(2024, 2, 29)

Today(k) == FromOrdinal(Ordinal(TodayBase) + k)

(***************************************************************************)
(* Strings: str.lower, str.strip, the "in" test, int and date parsing      *)
(***************************************************************************)
Char(s, i) == SubSeq(s, i, i)

UpperCase == "ABCDEFGHIJKLMNOPQRSTUVWXYZ"
LowerCase == "abcdefghijklmnopqrstuvwxyz"
Digits == "0123456789"
Whitespace == {" ", "\t", "\n", "\r"}

\* the position of character c in alphabet, 0 when it is not in it
IndexIn(c, alphabet) ==
    IF \E i \in 1..Len(alphabet) : Char(alphabet, i) = c
    THEN CHOOSE i \in 1..Len(alphabet) : Char(alphabet, i) = c
    ELSE 0

UpperChars == {Char(UpperCase, i) : i \in 1..Len(UpperCase)}

LowerOf == [c \in UpperChars |-> Char(LowerCase, IndexIn(c, UpperCase))]

LowerChar(c) == IF c \in UpperChars THEN LowerOf[c] ELSE c

RECURSIVE LowerFrom(_, _)
LowerFrom(s, i) ==
    IF i > Len(s) THEN "" ELSE LowerChar(Char(s, i)) \o LowerFrom(s, i + 1)

\* str.lower(): a text without upper-case letters is its own lower case
StrLower(s) ==
    IF \A i \in 1..Len(s) : Char(s, i) \notin UpperChars THEN s ELSE LowerFrom(s, 1)

RECURSIVE StripLeft(_)
StripLeft(s) ==
    IF Len(s) > 0 /\ Char(s, 1) \in Whitespace THEN StripLeft(SubSeq(s, 2, Len(s))) ELSE s

RECURSIVE StripRight(_)
StripRight(s) ==
    IF Len(s) > 0 /\ Char(s, Len(s)) \in Whitespace
    THEN StripRight(SubSeq(s, 1, Len(s) - 1)) ELSE s

\* str.strip(): without leading and trailing whitespace
StrStrip(s) == StripRight(StripLeft(s))

\* needle in haystack
Contains(haystack, needle) ==
    \E i \in 1..(Len(haystack) - Len(needle) + 1) :
        SubSeq(haystack, i, i + Len(needle) - 1) = needle

IsDigits(s) == Len(s) > 0 /\ \A i \in 1..Len(s) : IndexIn(Char(s, i), Digits) # 0

RECURSIVE DigitsValue(_, _)
DigitsValue(s, n) ==
    IF n = 0 THEN 0
    ELSE 10 * DigitsValue(s, n - 1) + (IndexIn(Char(s, n), Digits) - 1)

\* whether the text is a decimal integer, with or without a sign
IsNumericText(s) ==
    IF Len(s) > 0 /\ Char(s, 1) = "-" THEN IsDigits(SubSeq(s, 2, Len(s)))
    ELSE IsDigits(s)

NumericValue(s) ==
    IF Char(s, 1) = "-" THEN 0 - DigitsValue(SubSeq(s, 2, Len(s)), Len(s) - 1)
    ELSE DigitsValue(s, Len(s))

\* whether the text is a calendar day written YYYY-MM-DD
IsDateText(s) ==
    /\ Len(s) = 10
    /\ Char(s, 5) = "-" /\ Char(s, 8) = "-"
    /\ IsDigits(SubSeq(s, 1, 4)) /\ IsDigits(SubSeq(s, 6, 7)) /\ IsDigits(SubSeq(s, 9, 10))
    /\ LET y == DigitsValue(SubSeq(s, 1, 4), 4)
           m == DigitsValue(SubSeq(s, 6, 7), 2)
           d == DigitsValue(SubSeq(s, 9, 10), 2)
       IN y >= 1970 /\ m \in 1..12 /\ d \in 1..DaysInMonth(y, m)

DateTextOrdinal(s) ==
    Ordinal(MkDate(DigitsValue(SubSeq(s, 1, 4), 4),
                   DigitsValue(SubSeq(s, 6, 7), 2),
                   DigitsValue(SubSeq(s, 9, 10), 2)))

RECURSIVE Padded(_, _)
Padded(n, width) ==
    IF width = 0 THEN "" ELSE Padded(n \div 10, width - 1) \o Char(Digits, (n % 10) + 1)

\* str(Timestamp), to the day
DateText(n) ==
    LET date == FromOrdinal(n)
    IN Padded(date.y, 4) \o "-" \o Padded(date.m, 2) \o "-" \o Padded(date.d, 2)

(***************************************************************************)
(* Python values as the feeds and pandas hold them: <<kind, payload>>.     *)
(*   "num"  a number                "str"  a text                          *)
(*   "none" None                    "nan"  NaN                             *)
(*   "ts"   a Timestamp, its day    "nat"  NaT                             *)
(*   "date" a datetime.date, its ordinal                                   *)
(***************************************************************************)
Num(n) == <<"num", n>>
Str(s) == <<"str", s>>
None == <<"none", 0>>
NaN == <<"nan", 0>>
Timestamp(n) == <<"ts", n>>
NaT == <<"nat", 0>>
DateValue(n) == <<"date", n>>

Kind(v) == v[1]
Payload(v) == v[2]

\* pd.isna
IsNA(v) == Kind(v) \in {"none", "nan", "nat"}

\* datetime.date(1970, 1, 1).toordinal()
EpochOrdinal == Ordinal(MkDate(1970, 1, 1))

\* pd.to_numeric(v, errors="coerce"), one element
ToNumeric(v) ==
    CASE Kind(v) = "num" -> v
      [] Kind(v) = "str" ->
           IF IsNumericText(StrStrip(Payload(v)))
           THEN Num(NumericValue(StrStrip(Payload(v)))) ELSE NaN
      [] OTHER -> NaN

\* pd.to_datetime(v, errors="coerce"), one element
ToDatetime(v) ==
    CASE Kind(v) = "ts" -> v
      [] Kind(v) = "date" -> Timestamp(Payload(v))
      \* a bare integer is read as nanoseconds since the epoch: every
      \* millisecond count a feed gives falls on the epoch day
      [] Kind(v) = "num" -> Timestamp(EpochOrdinal)
      [] Kind(v) = "str" ->
           IF IsDateText(StrStrip(Payload(v)))
           THEN Timestamp(DateTextOrdinal(StrStrip(Payload(v)))) ELSE NaT
      [] OTHER -> NaT

\* a record of the common shape (lines 46-52), its columns in the order of
\* the artifact's header
TIME == 1
LATITUDE == 2
LONGITUDE == 3
MAGNITUDE == 4
TYPE == 5

MkRow(t, lat, lon, mag, type) == <<t, lat, lon, mag, type>>

\* a key a JSON object does not have, an element an XML item does not have
Missing == <<"missing", 0>>

\* dict.get(key, default)
DictGet(v, default) == IF Kind(v) = "missing" THEN default ELSE v

\* what makes a request fail: requests raises, raise_for_status raises, the
\* body does not parse
FailureModes == {"network", "status", "timeout", "parse"}

Raised(e) == [raised |-> TRUE, error |-> e, recs |-> <<>>]
Returned(recs) == [raised |-> FALSE, error |-> "none", recs |-> recs]

(***************************************************************************)
(* The global random generator (import random): a stream of numbers that   *)
(* is a function of the generator's state; the j-th draw from state g is   *)
(* Mix(g + j) and each draw moves the state by one.                        *)
(***************************************************************************)
Mix(x) == ((x * 75) + 74) % 65537

\* random.randint(lo, hi) and, on the integer grid, random.uniform(lo, hi)
RandInt(g, lo, hi) == lo + (Mix(g) % (hi - lo + 1))

\* random.choice(seq)
Choice(g, seq) == seq[1 + (Mix(g) % Len(seq))]

\* The k positions of 1..n a generator in state g picks without replacement,
\* in the order picked (random.sample, RandomState.choice(replace=False)).
SamplePositions(n, k, g) == [i \in 1..k |-> ((Mix(g) + i - 1) % n) + 1]

(***************************************************************************)
(* STEP 1: the seismic adapter                                             *)
(***************************************************************************)
\* a GeoJSON feature: properties (None when null), time and mag (Missing when
\* the key is absent), geometry ("none", "nocoords" or "coords") and its
\* coordinates
Feature(props_null, time, mag, geometry, coordinates) ==
    [props_null |-> props_null, time |-> time, mag |-> mag,
     geometry |-> geometry, coordinates |-> coordinates]

GoodFeature ==
    Feature(FALSE, Num(17067), Num(5), "coords", <<Num(142), Num(38), Num(10)>>)

\* the catalogues a run may meet
SeismicFeeds == {"quiet", "typical", "bulk", "malformed"}

FeedFeatures(feed) ==
    CASE feed = "quiet" -> <<>>
      [] feed = "typical" ->
           << GoodFeature,
              Feature(FALSE, Num(17068), Missing, "coords", <<Num(-70), Num(-33)>>),
              Feature(FALSE, Num(17069), None, "coords", <<Num(28), Num(39), Num(7)>>),
              Feature(FALSE, Num(17070), Num(6), "none", <<>>),
              Feature(TRUE, Missing, Missing, "nocoords", <<>>),
              Feature(FALSE, Missing, Num(5), "coords", <<Num(100), Num(2)>>) >>
      [] feed = "bulk" -> [i \in 1..BulkQuakes |-> GoodFeature]
      [] feed = "malformed" ->
           << GoodFeature,
              Feature(FALSE, Num(17071), Num(5), "coords", <<Num(142)>>) >>

\* line 43: if not geom or "coordinates" not in geom: continue
Skipped(f) == f.geometry # "coords"

\* line 45 raises ValueError on fewer than two coordinates; line 47 raises
\* AttributeError when properties is null
FeatureRaises(f) == ~Skipped(f) /\ (Len(f.coordinates) < 2 \/ f.props_null)

\* lines 46-52
QuakeRecord(f) ==
    MkRow(DictGet(f.time, None), f.coordinates[2], f.coordinates[1],
          DictGet(f.mag, Num(0)), "earthquake")

\* lines 31-53: fetch_monthly_earthquakes, given how the request ended
\* ("ok" or a failure mode) and the features the body holds
fetch_monthly_earthquakes(outcome, features) ==
    IF outcome # "ok" THEN Raised(outcome)
    ELSE IF \E i \in 1..Len(features) : FeatureRaises(features[i])
    THEN Raised("feature")
    ELSE LET kept == SelectSeq(features, LAMBDA f : ~Skipped(f))
         IN Returned([i \in 1..Len(kept) |-> QuakeRecord(kept[i])])

\* lines 60-65 without the try: the exception leaves the loop
WindowUnguarded(collected, result) ==
    IF result.raised
    THEN [escaped |-> TRUE, recs |-> collected]
    ELSE [escaped |-> FALSE, recs |-> collected \o result.recs]

\* lines 60-65: try: extend / except Exception: print
Window(collected, result) ==
    IF result.raised
    THEN [escaped |-> FALSE, recs |-> collected]
    ELSE [escaped |-> FALSE, recs |-> collected \o result.recs]

\* lines 58-68: one pass of the monthly loop
FetchWindow ==
    /\ pc = "seismic"
    /\ DateLT(current, end_date)
    /\ \E outcome \in {"ok"} \cup FailureModes :
         LET month_end == DateMin(end_date, AddMonths(current, WindowMonths))
             result == fetch_monthly_earthquakes(outcome, FeedFeatures(usgs))
             after == Window(earthquake_records, result)
         IN /\ requests' = Append(requests, [start |-> current, end |-> month_end])
            /\ earthquake_records' = after.recs
            /\ failed' = IF result.raised THEN failed + 1 ELSE failed
            /\ IF after.escaped
               THEN /\ pc' = "crashed"
                    /\ fault' = result.error
                    /\ UNCHANGED <<current, batch>>
               ELSE /\ current' = AddMonths(current, WindowMonths)
                    /\ batch' = batch + 1
                    /\ UNCHANGED <<pc, fault>>
    /\ UNCHANGED <<start_date, end_date, usgs, eonetOutcome, gdacsOutcome, rng,
                   records, gdacs_records, extras, all_records, cleaned, pool,
                   requested, df, artifact, writes, runs>>

\* random.sample(population, k)
RandomSample(population, k, g) ==
    LET at == SamplePositions(Len(population), k, g)
    IN [i \in 1..k |-> population[at[i]]]

\* lines 58 and 70-74: the loop ends, the records are cut to MAX_QUAKES
SeismicDone ==
    /\ pc = "seismic"
    /\ ~DateLT(current, end_date)
    /\ IF Len(earthquake_records) > MAX_QUAKES
       THEN /\ earthquake_records' = RandomSample(earthquake_records, MAX_QUAKES, rng)
            /\ rng' = rng + MAX_QUAKES
       ELSE UNCHANGED <<earthquake_records, rng>>
    /\ pc' = "eonet"
    /\ UNCHANGED <<fault, start_date, end_date, current, batch, usgs, requests,
                   failed, eonetOutcome, gdacsOutcome, records, gdacs_records,
                   extras, all_records, cleaned, pool, requested, df, artifact,
                   writes, runs>>

(***************************************************************************)
(* STEP 2: the open-events adapter                                         *)
(***************************************************************************)
Geometry(date, coordinates) == [date |-> date, coordinates |-> coordinates]
Event(categories, geometry) == [categories |-> categories, geometry |-> geometry]

\* the snapshots a run may meet; a category is its title (None when null)
EonetFeeds == {"typical", "broken"}

TypicalEvents ==
    << Event(<<Str("Wildfires"), Str("Severe Storms")>>,
             << Geometry(Str("2024-01-15"), <<Num(-120), Num(38)>>),
                Geometry(Str("soon"), <<Num(-121), Num(39)>>),
                Geometry(Str("2024-01-16"), <<Num(-122)>>),
                Geometry(Missing, <<Num(-123), Num(40)>>) >>),
       Event(<<>>,
             << Geometry(Str("2023-11-02"), <<Str("abc"), Num(12)>>) >>),
       Event(<<Str(" Sea Ice ")>>,
             << Geometry(Str("2023-12-31"), <<Str("-7"), Num(64)>>) >>) >>

EonetEvents(feed) ==
    CASE feed = "typical" -> TypicalEvents
      [] feed = "broken" -> TypicalEvents \o << Event(<<None>>, <<>>) >>

\* line 87 raises when a title is not a string
EventRaises(event) ==
    \E i \in 1..Len(event.categories) : Kind(event.categories[i]) # "str"

\* lines 87-88
EventCategory(event) ==
    IF event.categories = <<>> THEN "other" ELSE StrLower(Payload(event.categories[1]))

\* lines 90-95: the geometries that are not skipped
GeometryKept(g) ==
    /\ Len(g.coordinates) >= 2
    /\ ~IsNA(ToDatetime(DictGet(g.date, None)))

\* lines 93-107
EventRecord(cat, g) ==
    MkRow(Str(DateText(Payload(ToDatetime(DictGet(g.date, None))))), g.coordinates[2], g.coordinates[1],
          Num(0), cat)

\* lines 89-107 for one event
EventRecords(event) ==
    LET kept == SelectSeq(event.geometry, GeometryKept)
    IN [i \in 1..Len(kept) |-> EventRecord(EventCategory(event), kept[i])]

RECURSIVE EventsRecords(_, _)
EventsRecords(events, i) ==
    IF i > Len(events) THEN <<>>
    ELSE EventRecords(events[i]) \o EventsRecords(events, i + 1)

\* lines 83-107: the body of the try
EonetBody(outcome, events) ==
    IF outcome # "ok" THEN Raised(outcome)
    ELSE IF \E i \in 1..Len(events) : EventRaises(events[i])
    THEN Raised("title")
    ELSE Returned(EventsRecords(events, 1))

\* lines 82-111: try / except Exception: records = []
Eonet(result) ==
    IF result.raised
    THEN [escaped |-> FALSE, recs |-> <<>>]
    ELSE [escaped |-> FALSE, recs |-> result.recs]

FetchEonet ==
    /\ pc = "eonet"
    /\ \E outcome \in {"ok"} \cup FailureModes, feed \in EonetFeeds :
         LET result == EonetBody(outcome, EonetEvents(feed))
             after == Eonet(result)
         IN /\ records' = after.recs
            /\ eonetOutcome' = IF result.raised THEN "failed" ELSE "ok"
            /\ IF after.escaped
               THEN pc' = "crashed" /\ fault' = result.error
               ELSE pc' = "gdacs" /\ UNCHANGED fault
    /\ UNCHANGED <<start_date, end_date, current, batch, usgs, requests, failed,
                   gdacsOutcome, rng, earthquake_records, gdacs_records, extras,
                   all_records, cleaned, pool, requested, df, artifact, writes, runs>>

(***************************************************************************)
(* STEP 3: the global-alert adapter                                        *)
(***************************************************************************)
\* an RSS item: its title and pubDate texts (Missing when the element is
\* absent, None when it is empty)
Item(title, pubDate) == [title |-> title, pubDate |-> pubDate]

GdacsFeeds == {"typical", "broken"}

GdacsItems(feed) ==
    CASE feed = "typical" ->
           << Item(Str("Tropical Storm Ana"), Str("2024-01-15")),
              Item(Str("Cyclone Freddy"), Str("soon")),
              Item(Str("Volcano Etna"), Missing),
              Item(Missing, Str("2024-02-01")),
              Item(Str("Flood in Peru"), None) >>
      [] feed = "broken" ->
           << Item(Str("Tropical Storm Ana"), Str("2024-01-15")),
              Item(None, Str("2024-01-16")),
              Item(Str("Volcano Etna"), Str("2024-01-17")) >>

\* line 124 raises AttributeError when the title element has no text
ItemRaises(item) == Kind(item.title) = "none"

\* line 124
ItemTitle(item) ==
    IF Kind(item.title) = "missing" THEN "gdacs" ELSE StrLower(Payload(item.title))

\* lines 131-135
AlertType(title) ==
    IF Contains(title, "storm") THEN "storm"
    ELSE IF Contains(title, "cyclone") THEN "cyclone"
    ELSE IF Contains(title, "volcano") THEN "volcano"
    ELSE "emergency"

\* pd.to_datetime(pubdate, errors="coerce") of a scalar: None stays None
PubTime(item) ==
    LET pubdate == DictGet(item.pubDate, None)
    IN IF Kind(pubdate) = "none" THEN None ELSE ToDatetime(pubdate)

\* lines 126-136, the generator being in state g
AlertRecord(item, g) ==
    MkRow(PubTime(item), Num(RandInt(g, -50, 50)), Num(RandInt(g + 1, -180, 180)),
          Num(RandInt(g + 2, 3, 7)), AlertType(ItemTitle(item)))

\* the items before the first one that raises
ItemsDone(items) ==
    IF \E i \in 1..Len(items) : ItemRaises(items[i])
    THEN (CHOOSE i \in 1..Len(items) :
             ItemRaises(items[i]) /\ \A j \in 1..(i - 1) : ~ItemRaises(items[j])) - 1
    ELSE Len(items)

\* lines 120-136: the body of the try; an exception leaves what was appended
GdacsBody(outcome, items, g) ==
    IF outcome # "ok" THEN Raised(outcome)
    ELSE LET n == ItemsDone(items)
             recs == [i \in 1..n |-> AlertRecord(items[i], g + 3 * (i - 1))]
         IN [raised |-> n < Len(items), error |-> IF n < Len(items) THEN "title" ELSE "none",
             recs |-> recs]

\* lines 118-139: try / except Exception: print
Gdacs(result) == [escaped |-> FALSE, recs |-> result.recs]

FetchGdacs ==
    /\ pc = "gdacs"
    /\ \E outcome \in {"ok"} \cup FailureModes, feed \in GdacsFeeds :
         LET result == GdacsBody(outcome, GdacsItems(feed), rng)
             after == Gdacs(result)
         IN /\ gdacs_records' = after.recs
            /\ rng' = rng + 3 * Len(result.recs)
            /\ gdacsOutcome' = IF ~result.raised THEN "ok"
                               ELSE IF result.recs = <<>> THEN "failed" ELSE "partial"
            /\ IF after.escaped
               THEN pc' = "crashed" /\ fault' = result.error
               ELSE pc' = "synthetic" /\ UNCHANGED fault
    /\ UNCHANGED <<start_date, end_date, current, batch, usgs, requests, failed,
                   eonetOutcome, earthquake_records, records, extras, all_records,
                   cleaned, pool, requested, df, artifact, writes, runs>>

(***************************************************************************)
(* STEP 4: the synthetic adapter                                           *)
(***************************************************************************)
FillerTypes == <<"flood", "drought", "heat wave", "landslide">>

\* lines 147-153, the generator being in state g
FillerRecord(g) ==
    MkRow(DateValue(Ordinal(start_date) + RandInt(g, 0, SyntheticDaySpan)),
          Num(RandInt(g + 1, -70, 70)), Num(RandInt(g + 2, -180, 180)),
          Num(RandInt(g + 3, 1, 5)), Choice(g + 4, FillerTypes))

\* the loop of line 146 never entered
FillersNone(count, g) == <<>>

\* lines 145-153
Fillers(count, g) == [i \in 1..count |-> FillerRecord(g + 5 * (i - 1))]

GenerateSynthetic ==
    /\ pc = "synthetic"
    /\ extras' = Fillers(SyntheticCount, rng)
    /\ rng' = rng + 5 * SyntheticCount
    /\ pc' = "merge"
    /\ UNCHANGED <<fault, start_date, end_date, current, batch, usgs, requests,
                   failed, eonetOutcome, gdacsOutcome, earthquake_records, records,
                   gdacs_records, all_records, cleaned, pool, requested, df,
                   artifact, writes, runs>>

(***************************************************************************)
(* STEP 5: merge and clean                                                 *)
(***************************************************************************)
\* lines 160-161
MergeRecords ==
    /\ pc = "merge"
    /\ all_records' = earthquake_records \o records \o gdacs_records \o extras
    /\ df' = all_records'
    /\ pc' = "clean"
    /\ UNCHANGED <<fault, start_date, end_date, current, batch, usgs, requests,
                   failed, eonetOutcome, gdacsOutcome, rng, earthquake_records,
                   records, gdacs_records, extras, cleaned, pool, requested,
                   artifact, writes, runs>>

\* line 163
CoerceLatitude(t) == [i \in 1..Len(t) |-> [t[i] EXCEPT ![LATITUDE] = ToNumeric(@)]]

\* line 164
CoerceLongitude(t) == [i \in 1..Len(t) |-> [t[i] EXCEPT ![LONGITUDE] = ToNumeric(@)]]

\* dropna(subset=["latitude"])
DropNaLatitude(t) == SelectSeq(t, LAMBDA r : ~IsNA(r[LATITUDE]))

\* line 165
DropNaCoordinates(t) ==
    SelectSeq(t, LAMBDA r : ~IsNA(r[LATITUDE]) /\ ~IsNA(r[LONGITUDE]))

\* line 166
NormalizeType(t) == [i \in 1..Len(t) |-> [t[i] EXCEPT ![TYPE] = StrStrip(StrLower(@))]]

\* line 167
CoerceTime(t) == [i \in 1..Len(t) |-> [t[i] EXCEPT ![TIME] = ToDatetime(@)]]

\* line 168
DropNaTime(t) == SelectSeq(t, LAMBDA r : ~IsNA(r[TIME]))

\* lines 163-168
CleanTable(t) ==
    DropNaTime(CoerceTime(NormalizeType(DropNaCoordinates(
        CoerceLongitude(CoerceLatitude(t))))))

Clean ==
    /\ pc = "clean"
    /\ df' = CleanTable(df)
    /\ pc' = "balance"
    /\ UNCHANGED <<fault, start_date, end_date, current, batch, usgs, requests,
                   failed, eonetOutcome, gdacsOutcome, rng, earthquake_records,
                   records, gdacs_records, extras, all_records, cleaned, pool,
                   requested, artifact, writes, runs>>

(***************************************************************************)
(* STEP 6: balance and save                                                *)
(***************************************************************************)
\* random_state left out: the sample is drawn from the global generator
RandomStateGlobal == rng

\* random_state=42 at lines 175 and 177: the sample is drawn from a generator
\* of its own, seeded with the constant
RandomState == BalancerSeed

\* 10000 // len(df), the + 1 left out
ReplicationFactorFloor(n) == LowerTarget \div n

\* line 174: 10000 // len(df) + 1
ReplicationFactor(n) == (LowerTarget \div n) + 1

\* line 174: pd.concat([df] * factor, ignore_index=True)
Replicate(t, factor) == [i \in 1..(Len(t) * factor) |-> t[((i - 1) % Len(t)) + 1]]

\* len(df), the cap left out
CapCountUncapped(n) == n

\* line 177: min(len(df), 12000)
CapCount(n) == Min(n, UpperCap)

\* df.sample(k, random_state=seed): ValueError when k exceeds the rows
SampleFaults(t, k) == k > Len(t)

SampleTable(t, k, seed) ==
    LET at == SamplePositions(Len(t), k, seed)
    IN [i \in 1..k |-> t[at[i]]]

\* what lines 173-177 sample from, and how many rows they ask for
BalancePool(t) ==
    IF Len(t) < LowerTarget THEN Replicate(t, ReplicationFactor(Len(t))) ELSE t

BalanceCount(t) == IF Len(t) < LowerTarget THEN LowerTarget ELSE CapCount(Len(t))

\* lines 173-177
Balance ==
    /\ pc = "balance"
    /\ cleaned' = df
    /\ IF Len(df) = 0
       THEN \* 10000 // 0
            /\ pc' = "crashed"
            /\ fault' = "ZeroDivisionError"
            /\ UNCHANGED <<df, pool, requested>>
       ELSE /\ pool' = Len(BalancePool(df))
            /\ requested' = BalanceCount(df)
            /\ IF SampleFaults(BalancePool(df), BalanceCount(df))
               THEN /\ pc' = "crashed"
                    /\ fault' = "ValueError"
                    /\ UNCHANGED df
               ELSE /\ df' = SampleTable(BalancePool(df), BalanceCount(df), RandomState)
                    /\ pc' = "persist"
                    /\ UNCHANGED fault
    /\ UNCHANGED <<start_date, end_date, current, batch, usgs, requests, failed,
                   eonetOutcome, gdacsOutcome, rng, earthquake_records, records,
                   gdacs_records, extras, all_records, artifact, writes, runs>>

\* to_csv placed before the Balancer
PersistBeforeBalance ==
    /\ pc = "balance"
    /\ writes = 0
    /\ artifact' = df
    /\ writes' = writes + 1
    /\ UNCHANGED <<pc, fault, start_date, end_date, current, batch, usgs, requests,
                   failed, eonetOutcome, gdacsOutcome, rng, earthquake_records,
                   records, gdacs_records, extras, all_records, cleaned, pool,
                   requested, df, runs>>

\* lines 179-180: df.to_csv(out_path, index=False)
Persist ==
    /\ pc = "persist"
    /\ artifact' = df
    /\ writes' = writes + 1
    /\ pc' = "done"
    /\ UNCHANGED <<fault, start_date, end_date, current, batch, usgs, requests,
                   failed, eonetOutcome, gdacsOutcome, rng, earthquake_records,
                   records, gdacs_records, extras, all_records, cleaned, pool,
                   requested, df, runs>>

(***************************************************************************)
(* The whole script                                                        *)
(***************************************************************************)
Seeds == 0..MaxSeed

\* lines 13-29 and 56-57, on the day end_date
Start(today) ==
    /\ pc = "seismic"
    /\ fault = "none"
    /\ end_date = today
    /\ start_date = AddMonths(today, 0 - SpanMonths)
    /\ current = start_date
    /\ batch = 1
    /\ usgs \in SeismicFeeds
    /\ requests = <<>>
    /\ failed = 0
    /\ eonetOutcome = "pending"
    /\ gdacsOutcome = "pending"
    /\ rng \in Seeds
    /\ earthquake_records = <<>>
    /\ records = <<>>
    /\ gdacs_records = <<>>
    /\ extras = <<>>
    /\ all_records = <<>>
    /\ cleaned = <<>>
    /\ pool = 0
    /\ requested = 0
    /\ df = <<>>
    /\ artifact = <<>>
    /\ writes = 0
    /\ runs = 0

\* the whole script is run on the day TodayBase, a 29 February, from which
\* the loop takes 13 windows; the other days are those of InitLoop
Init == Start(TodayBase)

Next ==
    \/ FetchWindow
    \/ SeismicDone
    \/ FetchEonet
    \/ FetchGdacs
    \/ GenerateSynthetic
    \/ MergeRecords
    \/ Clean
    \/ Balance
    \/ Persist

Spec == Init /\ [][Next]_vars

(***************************************************************************)
(* The monthly loop on its own, over more days                             *)
(***************************************************************************)
InitLoop == \E k \in 0..MaxLoopDayOffset : Start(Today(k))

NextLoop == FetchWindow \/ SeismicDone

SpecLoop == InitLoop /\ [][NextLoop]_vars

(***************************************************************************)
(* The Cleaner on its own: lines 163-168 applied to a merged table         *)
(***************************************************************************)
\* the script at stage, with nothing collected yet
Idle(stage) ==
    /\ pc = stage
    /\ fault = "none"
    /\ end_date = Today(0)
    /\ start_date = AddMonths(Today(0), 0 - SpanMonths)
    /\ current = Today(0)
    /\ batch = 1
    /\ usgs = "quiet"
    /\ requests = <<>>
    /\ failed = 0
    /\ eonetOutcome = "pending"
    /\ gdacsOutcome = "pending"
    /\ earthquake_records = <<>>
    /\ records = <<>>
    /\ gdacs_records = <<>>
    /\ extras = <<>>
    /\ cleaned = <<>>
    /\ pool = 0
    /\ requested = 0
    /\ artifact = <<>>
    /\ writes = 0
    /\ runs = 0

\* rows as the adapters hand them to the merge, valid and invalid
MergedRows ==
    { MkRow(Num(17067), Num(38), Num(142), Num(5), "earthquake"),
      MkRow(DateValue(Ordinal(MkDate(2023, 6, 1))), Num(-12), Num(30), Num(2), "Flood "),
      MkRow(Timestamp(Ordinal(MkDate(2024, 1, 15))), Num(10), Str("abc"), Num(4), "storm"),
      MkRow(Str("2023-12-31"), Num(64), Str("-7"), Num(0), " Sea Ice "),
      MkRow(Str("soon"), Num(39), Num(-121), Num(0), "wildfires"),
      MkRow(None, None, Num(100), None, "Earthquake"),
      MkRow(NaT, Num(5), Num(6), Num(3), "cyclone") }

MergedTables == UNION {[1..n -> MergedRows] : n \in 0..MaxRows}

InitCleaner ==
    /\ Idle("clean")
    /\ rng = 0
    /\ all_records \in MergedTables
    /\ df = all_records

NextCleaner == Clean

SpecCleaner == InitCleaner /\ [][NextCleaner]_vars

(***************************************************************************)
(* The Balancer on its own: lines 173-180 applied to a cleaned table, and  *)
(* applied again to the same table by a later run                          *)
(***************************************************************************)
Around(n) == (n - NearBand)..(n + NearBand)

BalancerSizes ==
    (0..NearBand) \cup Around(LowerTarget \div 3) \cup Around(LowerTarget \div 2)
    \cup Around(LowerTarget) \cup Around(UpperCap)

\* a cleaned table of n rows, no two of them equal
CleanedTable(n) ==
    [i \in 1..n |->
        MkRow(Timestamp(EpochOrdinal + i), Num((i % 141) - 70), Num((i % 361) - 180),
              Num(i % 8), FillerTypes[(i % Len(FillerTypes)) + 1])]

InitBalancer ==
    /\ Idle("balance")
    /\ rng = 0
    /\ all_records = <<>>
    /\ \E n \in BalancerSizes : df = CleanedTable(n)

\* a later run hands the Balancer the same table; whatever the adapters drew
\* before has left the global generator in another state
Rerun ==
    /\ pc = "done"
    /\ runs = 0
    /\ runs' = runs + 1
    /\ rng' \in 1..MaxBalancerSeed
    /\ df' = cleaned
    /\ writes' = 0
    /\ pc' = "balance"
    /\ UNCHANGED <<fault, start_date, end_date, current, batch, usgs, requests,
                   failed, eonetOutcome, gdacsOutcome, earthquake_records, records,
                   gdacs_records, extras, all_records, cleaned, pool, requested,
                   artifact>>

NextBalancer == Balance \/ Persist \/ Rerun

SpecBalancer == InitBalancer /\ [][NextBalancer]_vars

(***************************************************************************)
(* Properties of the Balancer                                              *)
(***************************************************************************)
Balanced == pc \in {"persist", "done"}

\* C1 as stated: for a non-empty cleaned table of n rows the Balancer's output
\* has exactly 10000 rows when n < 10000 and exactly 12000 rows when
\* n >= 10000, and never more than 12000 nor fewer than 10000.
C1_AsStated ==
    (Balanced /\ Len(cleaned) >= 1) =>
        /\ Len(cleaned) < LowerTarget => Len(df) = LowerTarget
        /\ Len(cleaned) >= LowerTarget => Len(df) = UpperCap
        /\ Len(df) <= UpperCap
        /\ Len(df) >= LowerTarget

\* C1 amended: for a non-empty cleaned table of n rows the Balancer's output
\* has exactly 10000 rows when n < 10000 and min(n, 12000) rows when
\* n >= 10000 (12000 only from n = 12000 on); it never has more than 12000
\* rows nor fewer than 10000.
C1_RowCount ==
    (Balanced /\ Len(cleaned) >= 1) =>
        /\ Len(cleaned) < LowerTarget => Len(df) = LowerTarget
        /\ Len(cleaned) >= LowerTarget => Len(df) = Min(Len(cleaned), UpperCap)
        /\ Len(df) <= UpperCap
        /\ Len(df) >= LowerTarget

\* a table above the cap was cut to the cap
C1_Witness ==
    /\ pc = "persist"
    /\ Len(cleaned) > UpperCap
    /\ Len(df) = UpperCap

\* C2: when the cleaned table handed to the Balancer is empty, the run ends
\* with an explicit, descriptive error: not with the division by zero of the
\* replication factor, and not with an artifact written.
C2_EmptyTableError ==
    (pc \in {"persist", "done", "crashed"} /\ Len(cleaned) = 0) =>
        /\ pc = "crashed"
        /\ fault # "ZeroDivisionError"
        /\ artifact = <<>>

\* C10: for a non-empty cleaned table of n rows the sampling step never asks
\* for more rows than the table it samples from holds: below 10000 rows that
\* table has n * (10000 div n + 1) rows, more than 10000; from 10000 rows on
\* min(n, 12000) <= n rows are asked for; the sampling does not fault and
\* every output row is a row of the input.
C10_SampleWithinPool ==
    (pc \in {"persist", "crashed"} /\ Len(cleaned) >= 1) =>
        LET n == Len(cleaned)
            \* the j-th row of CleanedTable carries day j
            origin(row) == Payload(row[TIME]) - EpochOrdinal
        IN /\ pc = "persist"
           /\ requested <= pool
           /\ n < LowerTarget =>
                /\ pool = n * ((LowerTarget \div n) + 1)
                /\ pool > LowerTarget
                /\ requested = LowerTarget
           /\ n >= LowerTarget =>
                /\ pool = n
                /\ requested = Min(n, UpperCap)
           /\ Len(df) = requested
           /\ \A i \in 1..Len(df) :
                origin(df[i]) \in 1..n /\ df[i] = cleaned[origin(df[i])]

\* a table that does not divide 10000 was replicated and sampled
C10_Witness ==
    /\ pc = "persist"
    /\ Len(cleaned) = (LowerTarget \div 3)
    /\ pool = 4 * Len(cleaned)
    /\ Len(df) = LowerTarget

\* C7: a later run of the Balancer on the same table writes the same rows in
\* the same order as the run before it, whatever state the adapters' draws
\* left the global generator in.
C7_Reproducible ==
    [][(pc = "persist" /\ runs > 0) => artifact' = artifact]_vars

\* the Balancer has run twice on one table, the global generator in another
\* state the second time, and both runs wrote rows
C7_Witness ==
    /\ pc = "done"
    /\ runs = 1
    /\ rng # 0
    /\ Len(cleaned) >= 1
    /\ artifact = df
    /\ Len(artifact) >= LowerTarget

(***************************************************************************)
(* Properties of the Cleaner                                               *)
(***************************************************************************)
\* a value that is a number or the text of one
NumericValued(v) ==
    \/ Kind(v) = "num"
    \/ Kind(v) = "str" /\ IsNumericText(StrStrip(Payload(v)))

\* a value that is a point in time or the text of one
ParsesToTimestamp(v) ==
    \/ Kind(v) \in {"ts", "date", "num"}
    \/ Kind(v) = "str" /\ IsDateText(StrStrip(Payload(v)))

ValidRow(r) ==
    NumericValued(r[LATITUDE]) /\ NumericValued(r[LONGITUDE]) /\ ParsesToTimestamp(r[TIME])

NoUpperCase(s) == \A i \in 1..Len(s) : Char(s, i) \notin UpperChars

Trimmed(s) ==
    Len(s) = 0 \/ (Char(s, 1) \notin Whitespace /\ Char(s, Len(s)) \notin Whitespace)

\* C6: the Cleaner's output is exactly the input rows whose latitude and
\* longitude are numeric and whose time parses, in their input order, each
\* with its type lowercased and trimmed (and its coordinates and time in
\* their coerced form); cleaning the output again changes nothing.
C6_CleanerExact ==
    pc = "balance" =>
        LET valid == SelectSeq(all_records, ValidRow)
        IN /\ Len(df) = Len(valid)
           /\ \A i \in 1..Len(df) :
                /\ df[i][TYPE] = StrLower(StrStrip(valid[i][TYPE]))
                /\ NoUpperCase(df[i][TYPE]) /\ Trimmed(df[i][TYPE])
                /\ df[i][MAGNITUDE] = valid[i][MAGNITUDE]
                /\ Kind(df[i][LATITUDE]) = "num"
                /\ df[i][LATITUDE] = ToNumeric(valid[i][LATITUDE])
                /\ Kind(df[i][LONGITUDE]) = "num"
                /\ df[i][LONGITUDE] = ToNumeric(valid[i][LONGITUDE])
                /\ Kind(df[i][TIME]) = "ts"
                /\ df[i][TIME] = ToDatetime(valid[i][TIME])
           /\ CleanTable(df) = df

\* rows typed "earthquake", "Flood " and one with a non-numeric longitude
\* came out as two rows, the second typed "flood"
C6_Witness ==
    /\ pc = "balance"
    /\ Len(all_records) = 3
    /\ all_records[1][TYPE] = "earthquake"
    /\ all_records[2][TYPE] = "Flood "
    /\ all_records[3][LONGITUDE] = Str("abc")
    /\ Len(df) = 2
    /\ df[1][TYPE] = "earthquake"
    /\ df[2][TYPE] = "flood"

(***************************************************************************)
(* Properties of the monthly loop                                          *)
(***************************************************************************)
\* C8: the loop issues one request per window, in chronological order and
\* without retry, advancing after a failure as after a success; the windows
\* are contiguous from start_date, none reaches past end_date, the last one
\* ends at end_date, and the loop ends once the window start reaches end_date.
C8_Windows ==
    LET n == Len(requests)
    IN /\ n = batch - 1
       /\ failed <= n
       /\ n <= SpanMonths + 1
       /\ n > 0 => requests[1].start = start_date
       /\ \A i \in 1..n :
            /\ DateLT(requests[i].start, requests[i].end)
            /\ ~DateLT(end_date, requests[i].end)
            /\ LET month_later == AddMonths(requests[i].start, WindowMonths)
               IN requests[i].end =
                     IF DateLT(end_date, month_later) THEN end_date ELSE month_later
       /\ \A i \in 1..(n - 1) : requests[i + 1].start = requests[i].end
       /\ (pc = "seismic" /\ n > 0) =>
            current = AddMonths(requests[n].start, WindowMonths)
       /\ pc = "seismic" => ENABLED NextLoop
       /\ pc # "seismic" =>
            /\ n >= SpanMonths
            /\ requests[n].end = end_date
            /\ ~DateLT(current, end_date)

\* a loop of thirteen windows, some failed and some not, has ended; its last
\* window was cut short at end_date
C8_Witness ==
    /\ pc = "eonet"
    /\ Len(requests) = SpanMonths + 1
    /\ failed \in 1..SpanMonths
    /\ requests[Len(requests)].end = end_date
    /\ DateLT(end_date, AddMonths(requests[Len(requests)].start, WindowMonths))

(***************************************************************************)
(* Properties of the whole run                                             *)
(***************************************************************************)
\* C3: every record of the written artifact has time, latitude, longitude,
\* magnitude and type populated, latitude and longitude numeric; a seismic
\* feature whose severity is missing or null gets magnitude 0.
C3_FieldsPopulated ==
    \A i \in 1..Len(artifact) :
         /\ ~IsNA(artifact[i][TIME])
         /\ Kind(artifact[i][LATITUDE]) = "num"
         /\ Kind(artifact[i][LONGITUDE]) = "num"
         /\ ~IsNA(artifact[i][MAGNITUDE])
         /\ Len(artifact[i][TYPE]) >= 1

\* the loop is over and every window's request failed
SeismicOutage == pc # "seismic" /\ failed = Len(requests)

\* C4: when the seismic request fails in every window the run still reaches
\* the end, whatever the other two feeds do, and the artifact it writes is
\* not empty.
C4_OutageStillDelivers ==
    SeismicOutage =>
        /\ pc # "crashed"
        /\ fault = "none"
        /\ pc = "done" => (writes = 1 /\ Len(artifact) >= 1)

\* a run in which all three feeds failed has written a full artifact
C4_Witness ==
    /\ pc = "done"
    /\ SeismicOutage
    /\ eonetOutcome = "failed"
    /\ gdacsOutcome = "failed"
    /\ Len(artifact) = LowerTarget

AdapterStages == {"seismic", "eonet", "gdacs", "synthetic"}

\* the records one window of this run's catalogue yields when it does not fail
WindowYield == fetch_monthly_earthquakes("ok", FeedFeatures(usgs))

\* C5: no failure of a request or of a parse leaves an adapter: the run is
\* never ended by one, an adapter that has been left has settled its outcome,
\* a failed window or adapter adds nothing (the alert adapter: what it had
\* collected), and the merge gets the records of the parts that did not fail.
C5_NoEscape ==
    /\ pc # "crashed"
    /\ fault = "none"
    /\ LET collected == IF WindowYield.raised THEN 0
                        ELSE (Len(requests) - failed) * Len(WindowYield.recs)
       IN Len(earthquake_records)
            = IF pc = "seismic" THEN collected ELSE Min(MAX_QUAKES, collected)
    /\ pc \notin {"seismic", "eonet"} => eonetOutcome # "pending"
    /\ pc \notin {"seismic", "eonet", "gdacs"} => gdacsOutcome # "pending"
    /\ eonetOutcome = "failed" => records = <<>>
    /\ gdacsOutcome = "failed" => gdacs_records = <<>>
    /\ gdacsOutcome = "partial" => Len(gdacs_records) >= 1
    /\ pc = "clean" =>
         all_records = earthquake_records \o records \o gdacs_records \o extras

\* the merge has run after failures in all three feeds: some windows failed
\* and some did not, the snapshot failed, the alert feed broke off part-way
C5_Witness ==
    /\ pc = "clean"
    /\ failed \in 1..(Len(requests) - 1)
    /\ Len(earthquake_records) >= 1
    /\ eonetOutcome = "failed"
    /\ gdacsOutcome = "partial"
    /\ Len(all_records) = Len(earthquake_records) + Len(gdacs_records) + SyntheticCount

StageOrder ==
    <<"seismic", "eonet", "gdacs", "synthetic", "merge", "clean", "balance",
      "persist", "done">>

\* C9: the stages run in the order adapters, merge, clean, balance, persist;
\* the artifact is written at most once, at the persist stage, from the
\* balanced table, and not at all in a run that faults; no stage changes
\* what an earlier stage collected.
C9_StagesInOrder ==
    /\ [](pc # "done" => (artifact = <<>> /\ writes = 0))
    /\ [](pc = "done" => (writes = 1 /\ artifact = df /\ Len(df) = requested))
    /\ [][ /\ pc' # pc =>
              \E i \in 1..(Len(StageOrder) - 1) :
                  pc = StageOrder[i] /\ pc' \in {StageOrder[i + 1], "crashed"}
           /\ artifact' # artifact => (pc = "persist" /\ pc' = "done")
           /\ pc # "seismic" => earthquake_records' = earthquake_records
           /\ pc # "eonet" => records' = records
           /\ pc # "gdacs" => gdacs_records' = gdacs_records
           /\ pc # "synthetic" => extras' = extras
           /\ pc # "merge" => all_records' = all_records
         ]_vars

\* a run whose four adapters all delivered has written its artifact once
C9_Witness ==
    /\ pc = "done"
    /\ writes = 1
    /\ artifact = df
    /\ Len(requests) > failed
    /\ eonetOutcome = "ok"
    /\ gdacsOutcome = "ok"
    /\ Len(extras) = SyntheticCount
    /\ Len(all_records) > Len(cleaned)
    /\ Len(df) = LowerTarget

====
